---------------------------- MODULE Spec2Model ----------------------------
(***************************************************************************)
(* A model of the clld data model (clld/db/models/common.py): the mapped   *)
(* classes Value, UnitValue, DomainElement, Identifier, Contribution,      *)
(* Parameter and the data/files mixins, as state machines over the         *)
(* attributes of persistent objects.  An object reference is identified    *)
(* with the primary key of the object it points to; None is the value of   *)
(* a nullable column that was never set.                                   *)
(*                                                                         *)
(* Further parts model what the database does with the declared table      *)
(* constraints when a transaction is committed (uniqueness, the CHECKs on  *)
(* the coordinates of a Language), the ordered relationships               *)
(* Parameter.domain and HasDataMixin.data, the versioning of Language      *)
(* with concurrent writers, and Data.add of clld/scripts/util.py.          *)
(* Each part has its own specification; the variables of the other parts   *)
(* stay at their initial values.                                           *)
(*                                                                         *)
(* An attribute assignment that raises leaves the object as it was and     *)
(* records the exception in `outcome`; `outcome` always describes the      *)
(* last operation that was attempted.                                      *)
(***************************************************************************)
EXTENDS Integers, Sequences, FiniteSets, TLC

VARIABLES
    outcome,                    \* the last operation: [op, obj, arg, raised]
    returned,                   \* what the last accessor call returned
    contributor_assocs,         \* Contribution.contributor_assocs, a list
    parameter_values,           \* Parameter.values, a list of Values
    entity_data,                \* the Language_data rows of one Language
    entity_files,               \* the Language_files rows of that Language
    language_row,               \* per Language: [status, name, version]
    language_history,           \* per Language: its history records, a list
    language_mutations,         \* per Language: committed mutations so far
    writer_pc,                  \* per writer: idle, or read
    writer_seen,                \* per writer: the version it read
    table_class,                \* the model class whose table is looked at
    db_rows,                    \* committed rows, per primary key
    pending,                    \* the session's uncommitted change
    domain_class,               \* Parameter or UnitParameter
    domain_rows,                \* (Unit)DomainElement rows, per primary key
    geo_rows,                   \* per Language: committed coordinates
    geo_pending,                \* the uncommitted write of coordinates
    data_defaults,              \* Data.defaults, fixed when the Data instance is made
    data_registry,              \* Data: per (mapper name, key) an object
    data_session,               \* the objects added to DBSession
    data_calls,                 \* calls of Data.add so far
    owner_data,                 \* Language_data rows with ord, as stored
    link_languages,             \* the Languages that are stored
    link_identifiers,           \* the Identifiers that are stored
    link_rows,                  \* LanguageIdentifier rows, per primary key
    value_parameter_pk,         \* Value.parameter_pk, per Value
    value_domainelement,        \* Value.domainelement, per Value
    domainelement_parameter_pk, \* DomainElement.parameter_pk, per DomainElement
    value_last,                 \* per Value: the attribute assigned last
    unitvalue_unitparameter_pk, \* UnitValue.unitparameter_pk, per UnitValue
    unitvalue_unitdomainelement,\* UnitValue.unitdomainelement, per UnitValue
    unitdomainelement_unitparameter_pk, \* UnitDomainElement.unitparameter_pk
    identifier_type,            \* Identifier.type, per constructed Identifier
    identifier_assigned         \* per Identifier: a type assignment succeeded

vars == <<outcome, returned, contributor_assocs, parameter_values,
          entity_data, entity_files,
          language_row, language_history, language_mutations,
          writer_pc, writer_seen,
          table_class, db_rows, pending,
          domain_class, domain_rows,
          geo_rows, geo_pending,
          data_defaults, data_registry, data_session, data_calls,
          owner_data,
          link_languages, link_identifiers, link_rows,
          value_parameter_pk, value_domainelement,
          domainelement_parameter_pk, value_last,
          unitvalue_unitparameter_pk, unitvalue_unitdomainelement,
          unitdomainelement_unitparameter_pk,
          identifier_type, identifier_assigned>>

valueVars == <<value_parameter_pk, value_domainelement,
               domainelement_parameter_pk, value_last>>
unitValueVars == <<unitvalue_unitparameter_pk, unitvalue_unitdomainelement,
                   unitdomainelement_unitparameter_pk>>
identifierVars == <<identifier_type, identifier_assigned>>

contributionVars == <<contributor_assocs>>
parameterVars == <<parameter_values>>
annotationVars == <<entity_data, entity_files>>
versionedVars == <<language_row, language_history, language_mutations>>
linkVars == <<link_languages, link_identifiers, link_rows>>
ordVars == <<owner_data>>
dataVars == <<data_defaults, data_registry, data_session, data_calls>>
geoVars == <<geo_rows, geo_pending>>
domainVars == <<domain_class, domain_rows>>
dbVars == <<table_class, db_rows, pending>>
writerVars == <<writer_pc, writer_seen>>

notValueVars ==
    <<returned, unitValueVars, identifierVars, contributionVars, parameterVars,
      annotationVars, versionedVars,
      writerVars,
      dbVars,
      domainVars,
      geoVars,
      dataVars,
      ordVars,
      linkVars>>
notUnitValueVars ==
    <<returned, valueVars, identifierVars, contributionVars, parameterVars,
      annotationVars, versionedVars,
      writerVars,
      dbVars,
      domainVars,
      geoVars,
      dataVars,
      ordVars,
      linkVars>>
notIdentifierVars ==
    <<returned, valueVars, unitValueVars, contributionVars, parameterVars,
      annotationVars, versionedVars,
      writerVars,
      dbVars,
      domainVars,
      geoVars,
      dataVars,
      ordVars,
      linkVars>>
notContributionVars ==
    <<valueVars, unitValueVars, identifierVars, parameterVars, annotationVars,
      versionedVars,
      writerVars,
      dbVars,
      domainVars,
      geoVars,
      dataVars,
      ordVars,
      linkVars>>
notParameterVars ==
    <<valueVars, unitValueVars, identifierVars, contributionVars, annotationVars,
      versionedVars,
      writerVars,
      dbVars,
      domainVars,
      geoVars,
      dataVars,
      ordVars,
      linkVars>>
notAnnotationVars ==
    <<valueVars, unitValueVars, identifierVars, contributionVars, parameterVars,
      versionedVars,
      writerVars,
      dbVars,
      domainVars,
      geoVars,
      dataVars,
      ordVars,
      linkVars>>
notWriterVars ==
    <<returned, valueVars, unitValueVars, identifierVars, contributionVars,
      parameterVars, annotationVars,
      dbVars,
      domainVars,
      geoVars,
      dataVars,
      ordVars,
      linkVars>>
notDbVars ==
    <<returned, valueVars, unitValueVars, identifierVars, contributionVars,
      parameterVars, annotationVars, versionedVars, writerVars,
      domainVars,
      geoVars,
      dataVars,
      ordVars,
      linkVars>>
notDomainVars ==
    <<valueVars, unitValueVars, identifierVars, contributionVars,
      parameterVars, annotationVars, versionedVars, writerVars, dbVars,
      geoVars,
      dataVars,
      ordVars,
      linkVars>>
notGeoVars ==
    <<returned, valueVars, unitValueVars, identifierVars, contributionVars,
      parameterVars, annotationVars, versionedVars, writerVars, dbVars,
      domainVars,
      dataVars,
      ordVars,
      linkVars>>
notDataVars ==
    <<valueVars, unitValueVars, identifierVars, contributionVars,
      parameterVars, annotationVars, versionedVars, writerVars, dbVars,
      domainVars, geoVars,
      ordVars,
      linkVars>>
notOrdVars ==
    <<valueVars, unitValueVars, identifierVars, contributionVars,
      parameterVars, annotationVars, versionedVars, writerVars, dbVars,
      domainVars, geoVars, dataVars,
      linkVars>>
notLinkVars ==
    <<returned, valueVars, unitValueVars, identifierVars, contributionVars,
      parameterVars, annotationVars, versionedVars, writerVars, dbVars,
      domainVars, geoVars, dataVars, ordVars>>
notVersionedVars ==
    <<returned, valueVars, unitValueVars, identifierVars, contributionVars,
      parameterVars, annotationVars,
      writerVars,
      dbVars,
      domainVars,
      geoVars,
      dataVars,
      ordVars,
      linkVars>>

-----------------------------------------------------------------------------
(* Bounds of the model *)
NumValues == 1
NumParameters == 2
NumDomainElements == 2
NumIdentifiers == 2
NumContributors == 2
NumLanguages == 2
MaxOrd == 2
MaxAssocs == 3
MaxValues == 3
MaxRecords == 2
NumFiles == 2
MaxMutations == 3
NumWriters == 2
NumRows == 2
NumDomainRows == 3
MaxAdds == 2
NumLinks == 2

\* Python's None in an Integer column or an object reference; primary keys
\* start at 1.
None == 0
\* Python's None in a String column (the strings of the model are never
\* this one).
NoneStr == "<None>"

ValuePks == 1..NumValues
ParameterPks == 1..NumParameters
DomainElementPks == 1..NumDomainElements
IdentifierPks == 1..NumIdentifiers
ContributorPks == 1..NumContributors
LanguagePks == 1..NumLanguages
Ords == 1..MaxOrd
FilePks == 1..NumFiles
Writers == 1..NumWriters
RowPks == 1..NumRows
DomainRowPks == 1..NumDomainRows
LinkPks == 1..NumLinks

\* No exception, and the exception a failed `assert` raises.
NoError == "none"
AssertionError == "AssertionError"
\* The exception a failed attribute lookup raises.
AttributeError == "AttributeError"

Returned(v) == [raised |-> NoError, value |-> v]
Raised(e) == [raised |-> e, value |-> None]

Outcome(op, obj, arg, raised) ==
    [op |-> op, obj |-> obj, arg |-> arg, raised |-> raised]

NoOutcome == Outcome("none", None, None, NoError)

\* The elements of a list, and a list without its i-th element.
Range(seq) == {seq[i] : i \in 1..Len(seq)}
RemoveAt(seq, i) == SubSeq(seq, 1, i - 1) \o SubSeq(seq, i + 1, Len(seq))

-----------------------------------------------------------------------------
(* Value: the parameter reference and the domain element *)

\* A registration under a name that is not the column's.
Value_validates_other_name == {"parameter"}

\* The attribute names @validates registers Value.validate_parameter_pk
\* for: the validator runs on a set event of an attribute of that name.
Value_validates == {"parameter_pk"}

\* The column holding a Value's parameter reference.
Value_parameter_column == "parameter_pk"

\* A validator without the assertion.
Value_validate_parameter_pk_unchecked(self_domainelement, de_parameter_pk, parameter_pk) ==
    Returned(parameter_pk)

\* A validator that asserts also when the Value has no domain element.
Value_validate_parameter_pk_always(self_domainelement, de_parameter_pk, parameter_pk) ==
    IF de_parameter_pk # parameter_pk
    THEN Raised(AssertionError)
    ELSE Returned(parameter_pk)

\* Value.validate_parameter_pk(self, key, parameter_pk), with
\* self.domainelement and that domain element's parameter_pk passed in.
Value_validate_parameter_pk(self_domainelement, de_parameter_pk, parameter_pk) ==
    IF self_domainelement # None /\ de_parameter_pk # parameter_pk
    THEN Raised(AssertionError)
    ELSE Returned(parameter_pk)

\* value.parameter_pk = p: the validator's return value is stored.
SetValueParameterPk(v, p) ==
    LET d == value_domainelement[v]
        r == IF Value_parameter_column \in Value_validates
             THEN Value_validate_parameter_pk(
                      d, IF d = None THEN None ELSE domainelement_parameter_pk[d], p)
             ELSE Returned(p)
    IN  /\ outcome' = Outcome("Value.parameter_pk", v, p, r.raised)
        /\ IF r.raised = NoError
           THEN /\ value_parameter_pk' = [value_parameter_pk EXCEPT ![v] = r.value]
                /\ value_last' = [value_last EXCEPT ![v] = "parameter_pk"]
           ELSE UNCHANGED <<value_parameter_pk, value_last>>
        /\ UNCHANGED <<value_domainelement, domainelement_parameter_pk>>
        /\ UNCHANGED notValueVars

\* An assignment of the domain element with a check symmetric to that of the
\* parameter.
SetValueDomainElement_checked(v, d) ==
    IF /\ d # None
       /\ value_parameter_pk[v] # None
       /\ domainelement_parameter_pk[d] # value_parameter_pk[v]
    THEN /\ outcome' = Outcome("Value.domainelement", v, d, AssertionError)
         /\ UNCHANGED valueVars
         /\ UNCHANGED notValueVars
    ELSE /\ outcome' = Outcome("Value.domainelement", v, d, NoError)
         /\ value_domainelement' = [value_domainelement EXCEPT ![v] = d]
         /\ value_last' = [value_last EXCEPT ![v] = "domainelement"]
         /\ UNCHANGED <<value_parameter_pk, domainelement_parameter_pk>>
         /\ UNCHANGED notValueVars

\* value.domainelement = d: no validator is registered for it.
SetValueDomainElement(v, d) ==
    /\ outcome' = Outcome("Value.domainelement", v, d, NoError)
    /\ value_domainelement' = [value_domainelement EXCEPT ![v] = d]
    /\ value_last' = [value_last EXCEPT ![v] = "domainelement"]
    /\ UNCHANGED <<value_parameter_pk, domainelement_parameter_pk>>
    /\ UNCHANGED notValueVars

\* domainelement.parameter_pk = p: a plain column of DomainElement.  For a
\* Value that refers to the domain element, this is the latest assignment
\* to the pair (parameter, domain element's parameter).
SetDomainElementParameterPk(d, p) ==
    /\ outcome' = Outcome("DomainElement.parameter_pk", d, p, NoError)
    /\ domainelement_parameter_pk' = [domainelement_parameter_pk EXCEPT ![d] = p]
    /\ value_last' = [v \in ValuePks |->
                        IF value_domainelement[v] = d
                        THEN "domainelement.parameter_pk"
                        ELSE value_last[v]]
    /\ UNCHANGED <<value_parameter_pk, value_domainelement>>
    /\ UNCHANGED notValueVars

ValueInit ==
    /\ value_parameter_pk = [v \in ValuePks |-> None]
    /\ value_domainelement = [v \in ValuePks |-> None]
    /\ domainelement_parameter_pk \in [DomainElementPks -> ParameterPks]
    /\ value_last = [v \in ValuePks |-> "none"]

ValueIdle ==
    /\ value_parameter_pk = [v \in ValuePks |-> None]
    /\ value_domainelement = [v \in ValuePks |-> None]
    /\ domainelement_parameter_pk = [d \in DomainElementPks |-> None]
    /\ value_last = [v \in ValuePks |-> "none"]

ValueNext ==
    \/ \E v \in ValuePks, p \in ParameterPks \cup {None} : SetValueParameterPk(v, p)
    \/ \E v \in ValuePks, d \in DomainElementPks \cup {None} : SetValueDomainElement(v, d)
    \/ \E d \in DomainElementPks, p \in ParameterPks : SetDomainElementParameterPk(d, p)

-----------------------------------------------------------------------------
(* UnitValue: the unit-parameter reference and the unit domain element *)

\* The attribute names @validates registers UnitValue.validate_parameter_pk
\* for.
UnitValue_validates == {"parameter_pk"}

\* The column holding a UnitValue's unit-parameter reference.
UnitValue_parameter_column == "unitparameter_pk"

\* UnitValue.validate_parameter_pk(self, key, unitparameter_pk), with
\* self.unitdomainelement and that element's unitparameter_pk passed in.
UnitValue_validate_parameter_pk(self_unitdomainelement, ude_unitparameter_pk, unitparameter_pk) ==
    IF self_unitdomainelement # None /\ ude_unitparameter_pk # unitparameter_pk
    THEN Raised(AssertionError)
    ELSE Returned(unitparameter_pk)

\* unitvalue.unitparameter_pk = p: a validator runs only when one is
\* registered under the name of the attribute that is set.
SetUnitValueUnitParameterPk(v, p) ==
    LET d == unitvalue_unitdomainelement[v]
        r == IF UnitValue_parameter_column \in UnitValue_validates
             THEN UnitValue_validate_parameter_pk(
                      d, IF d = None THEN None
                         ELSE unitdomainelement_unitparameter_pk[d], p)
             ELSE Returned(p)
    IN  /\ outcome' = Outcome("UnitValue.unitparameter_pk", v, p, r.raised)
        /\ IF r.raised = NoError
           THEN unitvalue_unitparameter_pk' =
                    [unitvalue_unitparameter_pk EXCEPT ![v] = r.value]
           ELSE UNCHANGED unitvalue_unitparameter_pk
        /\ UNCHANGED <<unitvalue_unitdomainelement, unitdomainelement_unitparameter_pk>>
        /\ UNCHANGED notUnitValueVars

\* unitvalue.unitdomainelement = d: no validator is registered for it.
SetUnitValueUnitDomainElement(v, d) ==
    /\ outcome' = Outcome("UnitValue.unitdomainelement", v, d, NoError)
    /\ unitvalue_unitdomainelement' = [unitvalue_unitdomainelement EXCEPT ![v] = d]
    /\ UNCHANGED <<unitvalue_unitparameter_pk, unitdomainelement_unitparameter_pk>>
    /\ UNCHANGED notUnitValueVars

\* unitdomainelement.unitparameter_pk = p: a plain column.
SetUnitDomainElementUnitParameterPk(d, p) ==
    /\ outcome' = Outcome("UnitDomainElement.unitparameter_pk", d, p, NoError)
    /\ unitdomainelement_unitparameter_pk' =
           [unitdomainelement_unitparameter_pk EXCEPT ![d] = p]
    /\ UNCHANGED <<unitvalue_unitparameter_pk, unitvalue_unitdomainelement>>
    /\ UNCHANGED notUnitValueVars

UnitValueInit ==
    /\ unitvalue_unitparameter_pk = [v \in ValuePks |-> None]
    /\ unitvalue_unitdomainelement = [v \in ValuePks |-> None]
    /\ unitdomainelement_unitparameter_pk \in [DomainElementPks -> ParameterPks]

UnitValueIdle ==
    /\ unitvalue_unitparameter_pk = [v \in ValuePks |-> None]
    /\ unitvalue_unitdomainelement = [v \in ValuePks |-> None]
    /\ unitdomainelement_unitparameter_pk = [d \in DomainElementPks |-> None]

UnitValueNext ==
    \/ \E v \in ValuePks, p \in ParameterPks \cup {None} :
           SetUnitValueUnitParameterPk(v, p)
    \/ \E v \in ValuePks, d \in DomainElementPks \cup {None} :
           SetUnitValueUnitDomainElement(v, d)
    \/ \E d \in DomainElementPks, p \in ParameterPks :
           SetUnitDomainElementUnitParameterPk(d, p)

-----------------------------------------------------------------------------
(* Identifier: the type *)

\* The attribute names @validates registers Identifier.validate_type for.
Identifier_validates == {"type"}

\* The values a caller may try to assign to Identifier.type.
TypeArguments == {"wals", "iso639-3", "glottolog", "ethnologue", "WALS", "", NoneStr}

\* A validator without the assertion.
Identifier_validate_type_unchecked(type) ==
    [raised |-> NoError, value |-> type]

\* Identifier.validate_type(self, key, type)
Identifier_validate_type(type) ==
    IF type \in {"wals", "iso639-3", "glottolog"}
    THEN [raised |-> NoError, value |-> type]
    ELSE [raised |-> AssertionError, value |-> NoneStr]

\* An Identifier that was not constructed.
Absent == "<absent>"

\* Identifier(): no type keyword, so no attribute is set and type is None.
NewIdentifier(i) ==
    /\ identifier_type[i] = Absent
    /\ outcome' = Outcome("Identifier()", i, NoneStr, NoError)
    /\ identifier_type' = [identifier_type EXCEPT ![i] = NoneStr]
    /\ UNCHANGED identifier_assigned
    /\ UNCHANGED notIdentifierVars

\* Identifier(type=t): the constructor sets the keyword as an attribute, so
\* the validator runs; when it raises, no object is constructed.
NewIdentifierWithType(i, t) ==
    LET r == IF "type" \in Identifier_validates
             THEN Identifier_validate_type(t)
             ELSE [raised |-> NoError, value |-> t]
    IN  /\ identifier_type[i] = Absent
        /\ outcome' = Outcome("Identifier(type)", i, t, r.raised)
        /\ IF r.raised = NoError
           THEN /\ identifier_type' = [identifier_type EXCEPT ![i] = r.value]
                /\ identifier_assigned' = [identifier_assigned EXCEPT ![i] = TRUE]
           ELSE UNCHANGED <<identifier_type, identifier_assigned>>
        /\ UNCHANGED notIdentifierVars

\* identifier.type = t: the validator's return value is stored.
SetIdentifierType(i, t) ==
    LET r == IF "type" \in Identifier_validates
             THEN Identifier_validate_type(t)
             ELSE [raised |-> NoError, value |-> t]
    IN  /\ identifier_type[i] # Absent
        /\ outcome' = Outcome("Identifier.type", i, t, r.raised)
        /\ IF r.raised = NoError
           THEN /\ identifier_type' = [identifier_type EXCEPT ![i] = r.value]
                /\ identifier_assigned' = [identifier_assigned EXCEPT ![i] = TRUE]
           ELSE UNCHANGED <<identifier_type, identifier_assigned>>
        /\ UNCHANGED notIdentifierVars

IdentifierInit ==
    /\ identifier_type = [i \in IdentifierPks |-> Absent]
    /\ identifier_assigned = [i \in IdentifierPks |-> FALSE]

IdentifierIdle == IdentifierInit

IdentifierNext ==
    \/ \E i \in IdentifierPks : NewIdentifier(i)
    \/ \E i \in IdentifierPks, t \in TypeArguments : NewIdentifierWithType(i, t)
    \/ \E i \in IdentifierPks, t \in TypeArguments : SetIdentifierType(i, t)

-----------------------------------------------------------------------------
(* Contribution: the contributor associations and the two derived lists *)

\* Insertion into a sorted list, after the elements whose key is not
\* greater (Python's sort is stable).
RECURSIVE Insert(_, _)
Insert(sortedSeq, a) ==
    IF sortedSeq = <<>> THEN <<a>>
    ELSE IF a.ord < Head(sortedSeq).ord THEN <<a>> \o sortedSeq
    ELSE <<Head(sortedSeq)>> \o Insert(Tail(sortedSeq), a)

\* The list left in stored order.
sorted_unsorted(assocs) == assocs

\* sorted(assocs, key=lambda a: a.ord)
RECURSIVE sorted(_)
sorted(assocs) ==
    IF assocs = <<>> THEN <<>>
    ELSE Insert(sorted(SubSeq(assocs, 1, Len(assocs) - 1)), assocs[Len(assocs)])

IsPrimary(a) == a.primary
IsNotPrimary(a) == ~a.primary

\* Contribution.primary_contributors
primary_contributors ==
    LET kept == SelectSeq(sorted(contributor_assocs), IsPrimary)
    IN  [i \in 1..Len(kept) |-> kept[i].contributor]

\* Contribution.secondary_contributors
secondary_contributors ==
    LET kept == SelectSeq(sorted(contributor_assocs), IsNotPrimary)
    IN  [i \in 1..Len(kept) |-> kept[i].contributor]

\* ContributionContributor(contribution=..., contributor=c, ord=o,
\* primary=p): the backref appends it to contribution.contributor_assocs.
AddContributionContributor(c, o, p) ==
    /\ Len(contributor_assocs) < MaxAssocs
    /\ contributor_assocs' =
           Append(contributor_assocs, [contributor |-> c, ord |-> o, primary |-> p])
    /\ outcome' = Outcome("ContributionContributor()", None, None, NoError)
    /\ returned' = None
    /\ UNCHANGED notContributionVars

\* contribution.contributor_assocs.remove(assoc)
RemoveContributionContributor(i) ==
    /\ i \in 1..Len(contributor_assocs)
    /\ contributor_assocs' = RemoveAt(contributor_assocs, i)
    /\ outcome' = Outcome("contributor_assocs.remove", None, None, NoError)
    /\ returned' = None
    /\ UNCHANGED notContributionVars

\* A caller reads contribution.primary_contributors and
\* contribution.secondary_contributors.
ReadContributors ==
    /\ outcome' = Outcome("Contribution.contributors", None, None, NoError)
    /\ returned' = [primary |-> primary_contributors,
                    secondary |-> secondary_contributors]
    /\ UNCHANGED contributor_assocs
    /\ UNCHANGED notContributionVars

ContributionInit == contributor_assocs = <<>>

ContributionNext ==
    \/ \E c \in ContributorPks, o \in Ords, p \in BOOLEAN :
           AddContributionContributor(c, o, p)
    \/ \E i \in 1..MaxAssocs : RemoveContributionContributor(i)
    \/ ReadContributors

-----------------------------------------------------------------------------
(* Parameter: the values and the languages derived from them *)

\* The key function of Parameter.languages: lambda v: v.language
language_of(v) == v.language

\* The run of elements at the head of `values` whose key is k.
RECURSIVE TakeRun(_, _)
TakeRun(values, k) ==
    IF values = <<>> \/ language_of(Head(values)) # k THEN <<>>
    ELSE <<Head(values)>> \o TakeRun(Tail(values), k)

\* A grouping that puts every element in a group of its own.
groupby_each(values) ==
    [i \in 1..Len(values) |-> <<language_of(values[i]), <<values[i]>> >>]

\* A grouping that puts all elements of equal key in one group, adjacent
\* or not.
RECURSIVE groupby_merged(_)
groupby_merged(values) ==
    IF values = <<>> THEN <<>>
    ELSE LET k == language_of(Head(values))
             Same(v) == language_of(v) = k
             Other(v) == language_of(v) # k
         IN  <<  <<k, SelectSeq(values, Same)>>  >>
                 \o groupby_merged(SelectSeq(values, Other))

\* itertools.groupby(values, key) as the list of its (key, group) pairs: a
\* new group starts whenever the key changes.
RECURSIVE groupby(_)
groupby(values) ==
    IF values = <<>> THEN <<>>
    ELSE LET k == language_of(Head(values))
             group == TakeRun(values, k)
         IN  <<  <<k, group>>  >> \o groupby(SubSeq(values, Len(group) + 1, Len(values)))

\* Parameter.languages, as the list of the items the generator yields; an
\* item is the tuple of the objects of one `yield`: `yield language` is the
\* one-tuple <<language>>.
languages ==
    LET groups == groupby(parameter_values)
    IN  [i \in 1..Len(groups) |-> <<groups[i][1]>>]

\* The primary keys of the Values of the parameter.
ValuePksInUse == {v.pk : v \in Range(parameter_values)}

\* Value(parameter=..., language=l): the backref appends it to
\* parameter.values.
AddValue(l) ==
    /\ Len(parameter_values) < MaxValues
    /\ LET pk == CHOOSE n \in 1..MaxValues :
                    /\ n \notin ValuePksInUse
                    /\ \A m \in 1..(n - 1) : m \in ValuePksInUse
       IN  parameter_values' = Append(parameter_values, [pk |-> pk, language |-> l])
    /\ outcome' = Outcome("Value()", None, None, NoError)
    /\ returned' = None
    /\ UNCHANGED notParameterVars

\* parameter.values.remove(value)
RemoveValue(i) ==
    /\ i \in 1..Len(parameter_values)
    /\ parameter_values' = RemoveAt(parameter_values, i)
    /\ outcome' = Outcome("values.remove", None, None, NoError)
    /\ returned' = None
    /\ UNCHANGED notParameterVars

\* list(parameter.languages)
ReadLanguages ==
    /\ outcome' = Outcome("Parameter.languages", None, None, NoError)
    /\ returned' = languages
    /\ UNCHANGED parameter_values
    /\ UNCHANGED notParameterVars

ParameterInit == parameter_values = <<>>

ParameterNext ==
    \/ \E l \in LanguagePks : AddValue(l)
    \/ \E i \in 1..MaxValues : RemoveValue(i)
    \/ ReadLanguages

-----------------------------------------------------------------------------
(* The data and files mixins, on Language *)

\* Bases with the two annotation mixins in the other order, and bases
\* without the versioning mixin.
Language_bases_files_first ==
    << "Base", "PolymorphicBaseMixin", "Versioned", "IdNameDescriptionMixin",
       "HasFilesMixin", "HasDataMixin" >>

Language_bases_unversioned ==
    << "Base", "PolymorphicBaseMixin", "IdNameDescriptionMixin",
       "HasDataMixin", "HasFilesMixin" >>

\* The bases of Language, in the order of the class statement; attribute
\* lookup takes the first base that defines the name.
Language_bases ==
    << "Base", "PolymorphicBaseMixin", "Versioned", "IdNameDescriptionMixin",
       "HasDataMixin", "HasFilesMixin" >>

\* The attributes HasDataMixin and HasFilesMixin define: each a method and
\* a relationship named `data`, to the table <owner>_data and <owner>_files.
HasDataMixin_attributes == [datadict |-> "method", data |-> "Language_data"]
HasFilesMixin_attributes == [filesdict |-> "method", data |-> "Language_files"]

MixinAttributes(base) ==
    IF base = "HasDataMixin" THEN HasDataMixin_attributes
    ELSE IF base = "HasFilesMixin" THEN HasFilesMixin_attributes
    ELSE <<>>

\* getattr(language, name): what the first base defining `name` binds it
\* to, or AttributeError when no base defines it.
RECURSIVE Lookup(_, _)
Lookup(bases, name) ==
    IF bases = <<>> THEN AttributeError
    ELSE IF name \in DOMAIN MixinAttributes(Head(bases))
         THEN MixinAttributes(Head(bases))[name]
         ELSE Lookup(Tail(bases), name)

\* dict(pairs): a later pair replaces an earlier one with the same key.
RECURSIVE dict(_)
dict(pairs) ==
    IF pairs = <<>> THEN <<>>
    ELSE LET m == dict(SubSeq(pairs, 1, Len(pairs) - 1))
             kv == pairs[Len(pairs)]
         IN  [k \in DOMAIN m \cup {kv[1]} |-> IF k = kv[1] THEN kv[2] ELSE m[k]]

\* HasDataMixin.datadict(self): reading d.key of a row of the files table
\* raises AttributeError.
datadict ==
    LET target == Lookup(Language_bases, "data")
    IN  IF target = "Language_data"
        THEN Returned(dict([i \in 1..Len(entity_data) |->
                              <<entity_data[i].key, entity_data[i].value>>]))
        ELSE IF target = "Language_files" /\ entity_files = <<>>
        THEN Returned(<<>>)
        ELSE Raised(AttributeError)

\* HasFilesMixin.filesdict(self)
filesdict ==
    LET target == Lookup(Language_bases, "files")
    IN  IF target = "Language_files"
        THEN Returned(dict([i \in 1..Len(entity_files) |->
                              <<entity_files[i].name, entity_files[i].file>>]))
        ELSE Raised(AttributeError)

DataKeys == {"k1", "k2"}
DataValues == {"a", "b"}
FileNames == {"n1", "n2"}

\* Language_data(object_pk=language.pk, key=k, value=v)
AddData(k, v) ==
    /\ Len(entity_data) < MaxRecords
    /\ entity_data' = Append(entity_data, [key |-> k, value |-> v])
    /\ outcome' = Outcome("Language_data()", None, None, NoError)
    /\ returned' = None
    /\ UNCHANGED entity_files
    /\ UNCHANGED notAnnotationVars

\* Language_files(object_pk=language.pk, name=n, file=f)
AddFile(n, f) ==
    /\ Len(entity_files) < MaxRecords
    /\ entity_files' = Append(entity_files, [name |-> n, file |-> f])
    /\ outcome' = Outcome("Language_files()", None, None, NoError)
    /\ returned' = None
    /\ UNCHANGED entity_data
    /\ UNCHANGED notAnnotationVars

\* language.datadict()
CallDatadict ==
    /\ outcome' = Outcome("datadict", None, None, datadict.raised)
    /\ returned' = datadict.value
    /\ UNCHANGED annotationVars
    /\ UNCHANGED notAnnotationVars

\* language.filesdict()
CallFilesdict ==
    /\ outcome' = Outcome("filesdict", None, None, filesdict.raised)
    /\ returned' = filesdict.value
    /\ UNCHANGED annotationVars
    /\ UNCHANGED notAnnotationVars

AnnotationInit == entity_data = <<>> /\ entity_files = <<>>

AnnotationNext ==
    \/ \E k \in DataKeys, v \in DataValues : AddData(k, v)
    \/ \E n \in FileNames, f \in FilePks : AddFile(n, f)
    \/ CallDatadict
    \/ CallFilesdict

-----------------------------------------------------------------------------
(* Versioning of Language *)

\* Whether a class with these bases takes part in versioning.
IsVersioned(bases) == "Versioned" \in Range(bases)

LanguageNames == {"a", "b"}

\* The history record of a committed mutation: the version it produces and
\* the state it captures (the current state for an insert, the prior state
\* otherwise).
HistoryRecord(version, op, name) == [version |-> version, op |-> op, name |-> name]

\* A recording that, on a delete, drops the records made before it.
RecordVersion_drop_on_delete(e, version, op, name) ==
    IF op = "delete"
    THEN [language_history EXCEPT ![e] = <<HistoryRecord(version, op, name)>>]
    ELSE [language_history EXCEPT ![e] = Append(@, HistoryRecord(version, op, name))]

\* The history of a Language after a committed mutation: one more record
\* when Language is versioned.
RecordVersion(e, version, op, name) ==
    IF IsVersioned(Language_bases)
    THEN [language_history EXCEPT ![e] = Append(@, HistoryRecord(version, op, name))]
    ELSE language_history

\* A Language is added to the session and committed.
InsertLanguage(e, n) ==
    /\ language_row[e].status = "absent"
    /\ language_mutations[e] < MaxMutations
    /\ language_row' = [language_row EXCEPT
                           ![e] = [status |-> "live", name |-> n, version |-> 1]]
    /\ language_history' = RecordVersion(e, 1, "insert", n)
    /\ language_mutations' = [language_mutations EXCEPT ![e] = @ + 1]
    /\ outcome' = Outcome("Language.insert", e, None, NoError)
    /\ UNCHANGED notVersionedVars

\* A field of a stored Language is changed and the change committed.
UpdateLanguage(e, n) ==
    /\ language_row[e].status = "live"
    /\ language_row[e].name # n
    /\ language_mutations[e] < MaxMutations
    /\ language_row' = [language_row EXCEPT
                           ![e] = [@ EXCEPT !.name = n, !.version = @ + 1]]
    /\ language_history' =
           RecordVersion(e, language_row[e].version + 1, "update", language_row[e].name)
    /\ language_mutations' = [language_mutations EXCEPT ![e] = @ + 1]
    /\ outcome' = Outcome("Language.update", e, None, NoError)
    /\ UNCHANGED notVersionedVars

\* A stored Language is deleted and the deletion committed.
DeleteLanguage(e) ==
    /\ language_row[e].status = "live"
    /\ language_mutations[e] < MaxMutations
    /\ language_row' = [language_row EXCEPT
                           ![e] = [@ EXCEPT !.status = "deleted", !.version = @ + 1]]
    /\ language_history' =
           RecordVersion(e, language_row[e].version + 1, "delete", language_row[e].name)
    /\ language_mutations' = [language_mutations EXCEPT ![e] = @ + 1]
    /\ outcome' = Outcome("Language.delete", e, None, NoError)
    /\ UNCHANGED notVersionedVars

VersionedInit ==
    /\ language_row = [e \in LanguagePks |->
                          [status |-> "absent", name |-> "a", version |-> 0]]
    /\ language_history = [e \in LanguagePks |-> <<>>]
    /\ language_mutations = [e \in LanguagePks |-> 0]

VersionedNext ==
    \/ \E e \in LanguagePks, n \in LanguageNames : InsertLanguage(e, n)
    \/ \E e \in LanguagePks, n \in LanguageNames : UpdateLanguage(e, n)
    \/ \E e \in LanguagePks : DeleteLanguage(e)

-----------------------------------------------------------------------------
(* Concurrent writers of one versioned Language *)

\* The exception of a write that is rejected on a version mismatch.
StaleDataError == "StaleDataError"

\* The Language the concurrent writers work on.
TargetLanguage == CHOOSE e \in LanguagePks : \A f \in LanguagePks : e <= f

\* A check that lets every write through.
VersionCheck_none(seen, current) == TRUE

\* The optimistic-concurrency check of a write: the version the writer read
\* is still the entity's version.
VersionCheck(seen, current) == seen = current

\* A writer loads the Language, and with it the version it has.
WriterRead(w) ==
    /\ writer_pc[w] = "idle"
    /\ language_row[TargetLanguage].status = "live"
    /\ writer_pc' = [writer_pc EXCEPT ![w] = "read"]
    /\ writer_seen' = [writer_seen EXCEPT ![w] = language_row[TargetLanguage].version]
    /\ outcome' = Outcome("Language.load", TargetLanguage, w, NoError)
    /\ UNCHANGED versionedVars
    /\ UNCHANGED notWriterVars

\* The writer commits a change of the name it loaded: the write is rejected
\* when the version check fails, else it produces the version after the one
\* the writer read.
WriterCommit(w, n) ==
    LET e == TargetLanguage
        ok == VersionCheck(writer_seen[w], language_row[e].version)
    IN  /\ writer_pc[w] = "read"
        /\ language_mutations[e] < MaxMutations
        /\ writer_pc' = [writer_pc EXCEPT ![w] = "idle"]
        /\ writer_seen' = [writer_seen EXCEPT ![w] = 0]
        /\ IF ok
           THEN /\ language_row' = [language_row EXCEPT
                                      ![e] = [@ EXCEPT !.name = n,
                                                       !.version = writer_seen[w] + 1]]
                /\ language_history' =
                       RecordVersion(e, writer_seen[w] + 1, "update", language_row[e].name)
                /\ language_mutations' = [language_mutations EXCEPT ![e] = @ + 1]
                /\ outcome' = Outcome("Language.update", e, w, NoError)
           ELSE /\ UNCHANGED versionedVars
                /\ outcome' = Outcome("Language.update", e, w, StaleDataError)
        /\ UNCHANGED notWriterVars

WriterIdle ==
    /\ writer_pc = [w \in Writers |-> "idle"]
    /\ writer_seen = [w \in Writers |-> 0]

WritersNext ==
    \/ \E n \in LanguageNames : InsertLanguage(TargetLanguage, n)
    \/ \E w \in Writers : WriterRead(w)
    \/ \E w \in Writers, n \in LanguageNames : WriterCommit(w, n)
    \/ DeleteLanguage(TargetLanguage)

-----------------------------------------------------------------------------
(* Uniqueness constraints of the tables, enforced when a write is committed *)

\* The exception of a write the database rejects.
IntegrityError == "IntegrityError"

\* The mapped classes that declare a uniqueness constraint on their name.
ConstrainedClasses ==
    {"Language", "DomainElement", "Parameter", "Contribution", "Contributor",
     "Identifier"}

\* id = Column(String, unique=True), inherited by each of these classes.
IdNameDescriptionMixin_unique == {<<"id">>}

\* The UniqueConstraints in __table_args__ of each class, each one the tuple
\* of its column names.
Language_table_args == {<<"name">>}
DomainElement_table_args == {<<"name", "parameter_pk">>}
Parameter_table_args == {<<"name">>}
Contribution_table_args == {<<"name">>}
Contributor_table_args == {<<"name">>}
Identifier_table_args == {<<"name", "type">>, <<"id">>}

table_args(cls) ==
    CASE cls = "Language" -> Language_table_args
      [] cls = "DomainElement" -> DomainElement_table_args
      [] cls = "Parameter" -> Parameter_table_args
      [] cls = "Contribution" -> Contribution_table_args
      [] cls = "Contributor" -> Contributor_table_args
      [] cls = "Identifier" -> Identifier_table_args

\* Only the column constraint of the mixin, without __table_args__.
UniqueConstraints_mixin_only(cls) == IdNameDescriptionMixin_unique

\* All uniqueness constraints on the table of a class.
UniqueConstraints(cls) == IdNameDescriptionMixin_unique \cup table_args(cls)

\* Values of the String/Unicode columns; NoneStr is SQL NULL.
IdValues == {"id1", "id2"}
NameValues == {NoneStr, "name1", "name2"}
ParameterPkValues == {NoneStr, "parameter1", "parameter2"}
TypeValues == {NoneStr, "wals", "glottolog"}

\* The rows a table of the class can hold: a column the class does not have
\* is NoneStr.
Rows(cls) ==
    [id : IdValues, name : NameValues,
     parameter_pk : IF cls = "DomainElement" THEN ParameterPkValues ELSE {NoneStr},
     type : IF cls = "Identifier" THEN TypeValues ELSE {NoneStr}]

Absent_row == [id |-> NoneStr, name |-> NoneStr, parameter_pk |-> NoneStr,
               type |-> NoneStr, absent |-> TRUE]
NoPending == [pk |-> None, row |-> Absent_row]

Stored(rows) == {pk \in RowPks : rows[pk] # Absent_row}

\* Two rows collide on a constraint as the database sees it: all columns of
\* the constraint are equal and none is NULL (NULLs are distinct from one
\* another in a UNIQUE constraint).
Collide(r1, r2, columns) ==
    \A k \in 1..Len(columns) :
        r1[columns[k]] # NoneStr /\ r1[columns[k]] = r2[columns[k]]

\* A commit that checks nothing.
SatisfiesConstraints_unchecked(cls, rows) == TRUE

\* The table satisfies every uniqueness constraint of its class.
SatisfiesConstraints(cls, rows) ==
    \A columns \in UniqueConstraints(cls) :
        \A p, q \in Stored(rows) : p # q => ~Collide(rows[p], rows[q], columns)

\* The table with the pending change written.
Written(rows, change) == [rows EXCEPT ![change.pk] = change.row]

\* DBSession.add(cls(...)): a new object is pending; nothing is checked.
SessionAdd(pk, row) ==
    /\ pending = NoPending
    /\ db_rows[pk] = Absent_row
    /\ pending' = [pk |-> pk, row |-> row]
    /\ outcome' = Outcome("Session.add", pk, None, NoError)
    /\ UNCHANGED <<table_class, db_rows>>
    /\ UNCHANGED notDbVars

\* Attribute assignments on a stored object: its changed row is pending;
\* nothing is checked.
SessionModify(pk, row) ==
    /\ pending = NoPending
    /\ db_rows[pk] # Absent_row
    /\ row # db_rows[pk]
    /\ pending' = [pk |-> pk, row |-> row]
    /\ outcome' = Outcome("Session.modify", pk, None, NoError)
    /\ UNCHANGED <<table_class, db_rows>>
    /\ UNCHANGED notDbVars

\* DBSession.delete(obj).
SessionDelete(pk) ==
    /\ pending = NoPending
    /\ db_rows[pk] # Absent_row
    /\ pending' = [pk |-> pk, row |-> Absent_row]
    /\ outcome' = Outcome("Session.delete", pk, None, NoError)
    /\ UNCHANGED <<table_class, db_rows>>
    /\ UNCHANGED notDbVars

\* The transaction ends: the pending change is written and the database
\* checks the constraints; on a violation it raises IntegrityError and the
\* transaction is rolled back.
Commit ==
    /\ pending # NoPending
    /\ pending' = NoPending
    /\ IF SatisfiesConstraints(table_class, Written(db_rows, pending))
       THEN /\ db_rows' = Written(db_rows, pending)
            /\ outcome' = Outcome("Session.commit", pending.pk, None, NoError)
       ELSE /\ db_rows' = db_rows
            /\ outcome' = Outcome("Session.commit", pending.pk, None, IntegrityError)
    /\ UNCHANGED table_class
    /\ UNCHANGED notDbVars

DbInit ==
    /\ table_class \in ConstrainedClasses
    /\ db_rows = [pk \in RowPks |-> Absent_row]
    /\ pending = NoPending

DbIdle ==
    /\ table_class = "Language"
    /\ db_rows = [pk \in RowPks |-> Absent_row]
    /\ pending = NoPending

DbNext ==
    \/ \E pk \in RowPks, row \in Rows(table_class) : SessionAdd(pk, row)
    \/ \E pk \in RowPks, row \in Rows(table_class) : SessionModify(pk, row)
    \/ \E pk \in RowPks : SessionDelete(pk)
    \/ Commit

-----------------------------------------------------------------------------
(* Parameter.domain and UnitParameter.domain, loaded from the database *)

\* The id of a domain element is a string, written as the tuple of its
\* digits: "1", "10", "2".
DomainElementIds == {<<1>>, <<1, 0>>, <<2>>}

\* String comparison: a is before b, character by character, a proper
\* prefix being before the longer string.
RECURSIVE StringLess(_, _)
StringLess(a, b) ==
    IF b = <<>> THEN FALSE
    ELSE IF a = <<>> THEN TRUE
    ELSE IF Head(a) # Head(b) THEN Head(a) < Head(b)
    ELSE StringLess(Tail(a), Tail(b))

\* An ordering of the domain by primary key.
Parameter_domain_order_by_pk == "pk"

\* order_by=DomainElement.id and order_by=UnitDomainElement.id.
Parameter_domain_order_by == "id"
UnitParameter_domain_order_by == "id"

domain_order_by(cls) ==
    IF cls = "Parameter" THEN Parameter_domain_order_by
    ELSE UnitParameter_domain_order_by

AbsentElement == [id |-> <<>>, parameter_pk |-> None]

\* The value of the ordering column of a row, as a string.
OrderKey(pk, column) == IF column = "id" THEN domain_rows[pk].id ELSE <<pk>>

\* SELECT ... ORDER BY column: the rows of the set in ascending order.
RECURSIVE order_by(_, _)
order_by(pks, column) ==
    IF pks = {} THEN <<>>
    ELSE LET first == CHOOSE x \in pks :
                         \A y \in pks \ {x} :
                             StringLess(OrderKey(x, column), OrderKey(y, column))
         IN  <<first>> \o order_by(pks \ {first}, column)

\* The relationship `domain` of a (Unit)Parameter: the elements whose
\* foreign key is the parameter, in the order of the relationship.
domain(cls, parameter) ==
    order_by({pk \in DomainRowPks : /\ domain_rows[pk] # AbsentElement
                                    /\ domain_rows[pk].parameter_pk = parameter},
             domain_order_by(cls))

IdsInUse == {domain_rows[pk].id : pk \in DomainRowPks} \ {<<>>}

\* A (Unit)DomainElement is stored, with an id no other element has and
\* with or without a parameter.  A committed write expires the collections
\* that were loaded before it.
AddDomainElement(pk, id, parameter) ==
    /\ domain_rows[pk] = AbsentElement
    /\ id \notin IdsInUse
    /\ domain_rows' = [domain_rows EXCEPT ![pk] = [id |-> id, parameter_pk |-> parameter]]
    /\ outcome' = Outcome("DomainElement", pk, parameter, NoError)
    /\ returned' = None
    /\ UNCHANGED domain_class
    /\ UNCHANGED notDomainVars

\* A stored element is given to another parameter, or to none.
SetDomainRowParameter(pk, parameter) ==
    /\ domain_rows[pk] # AbsentElement
    /\ domain_rows[pk].parameter_pk # parameter
    /\ domain_rows' = [domain_rows EXCEPT ![pk].parameter_pk = parameter]
    /\ outcome' = Outcome("DomainElement.parameter_pk", pk, parameter, NoError)
    /\ returned' = None
    /\ UNCHANGED domain_class
    /\ UNCHANGED notDomainVars

DeleteDomainElement(pk) ==
    /\ domain_rows[pk] # AbsentElement
    /\ domain_rows' = [domain_rows EXCEPT ![pk] = AbsentElement]
    /\ outcome' = Outcome("DomainElement.delete", pk, None, NoError)
    /\ returned' = None
    /\ UNCHANGED domain_class
    /\ UNCHANGED notDomainVars

\* parameter.domain is loaded and traversed.
ReadDomain(parameter) ==
    /\ returned' = domain(domain_class, parameter)
    /\ outcome' = Outcome("Parameter.domain", parameter, None, NoError)
    /\ UNCHANGED <<domain_class, domain_rows>>
    /\ UNCHANGED notDomainVars

DomainInit ==
    /\ domain_class \in {"Parameter", "UnitParameter"}
    /\ domain_rows = [pk \in DomainRowPks |-> AbsentElement]

DomainIdle ==
    /\ domain_class = "Parameter"
    /\ domain_rows = [pk \in DomainRowPks |-> AbsentElement]

DomainNext ==
    \/ \E pk \in DomainRowPks, id \in DomainElementIds,
          parameter \in ParameterPks \cup {None} : AddDomainElement(pk, id, parameter)
    \/ \E pk \in DomainRowPks, parameter \in ParameterPks \cup {None} :
          SetDomainRowParameter(pk, parameter)
    \/ \E pk \in DomainRowPks : DeleteDomainElement(pk)
    \/ \E parameter \in ParameterPks : ReadDomain(parameter)

-----------------------------------------------------------------------------
(* The coordinates of a Language and their CHECK constraints *)

\* A Float column holds NULL, written <<>>, or a number x, written <<x>>;
\* the numbers are whole degrees on both sides of each limit.
NULL == <<>>
Latitudes == {NULL, <<-91>>, <<-90>>, <<90>>, <<91>>}
Longitudes == {NULL, <<-181>>, <<-180>>, <<180>>, <<181>>}

\* A column without constraint.
Language_latitude_unchecked(latitude) == TRUE

\* CheckConstraint('-90 <= latitude and latitude <= 90'): a CHECK is
\* satisfied when its expression is true or, for NULL, unknown.
Language_latitude_check(latitude) ==
    latitude = NULL \/ (-90 <= latitude[1] /\ latitude[1] <= 90)

\* CheckConstraint('-180 <= longitude and longitude <= 180 ').
Language_longitude_check(longitude) ==
    longitude = NULL \/ (-180 <= longitude[1] /\ longitude[1] <= 180)

AbsentLanguage == [latitude |-> NULL, longitude |-> NULL, absent |-> TRUE]
NoGeoPending == [pk |-> None, row |-> AbsentLanguage]

\* Language(latitude=..., longitude=...) is added to the session.
AddLanguage(l, latitude, longitude) ==
    /\ geo_pending = NoGeoPending
    /\ geo_rows[l] = AbsentLanguage
    /\ geo_pending' = [pk |-> l, row |-> [latitude |-> latitude, longitude |-> longitude]]
    /\ outcome' = Outcome("Language", l, None, NoError)
    /\ UNCHANGED geo_rows
    /\ UNCHANGED notGeoVars

\* language.latitude = ... on a stored Language.
SetLatitude(l, latitude) ==
    /\ geo_pending = NoGeoPending
    /\ geo_rows[l] # AbsentLanguage
    /\ geo_pending' = [pk |-> l, row |-> [geo_rows[l] EXCEPT !.latitude = latitude]]
    /\ outcome' = Outcome("Language.latitude", l, None, NoError)
    /\ UNCHANGED geo_rows
    /\ UNCHANGED notGeoVars

\* language.longitude = ... on a stored Language.
SetLongitude(l, longitude) ==
    /\ geo_pending = NoGeoPending
    /\ geo_rows[l] # AbsentLanguage
    /\ geo_pending' = [pk |-> l, row |-> [geo_rows[l] EXCEPT !.longitude = longitude]]
    /\ outcome' = Outcome("Language.longitude", l, None, NoError)
    /\ UNCHANGED geo_rows
    /\ UNCHANGED notGeoVars

\* The transaction ends: the row is written if it passes both CHECK
\* constraints, else the database raises IntegrityError and the write is
\* rolled back.
CommitLanguage ==
    /\ geo_pending # NoGeoPending
    /\ geo_pending' = NoGeoPending
    /\ IF /\ Language_latitude_check(geo_pending.row.latitude)
          /\ Language_longitude_check(geo_pending.row.longitude)
       THEN /\ geo_rows' = [geo_rows EXCEPT ![geo_pending.pk] = geo_pending.row]
            /\ outcome' = Outcome("Language.commit", geo_pending.pk, None, NoError)
       ELSE /\ geo_rows' = geo_rows
            /\ outcome' = Outcome("Language.commit", geo_pending.pk, None, IntegrityError)
    /\ UNCHANGED notGeoVars

GeoIdle ==
    /\ geo_rows = [l \in LanguagePks |-> AbsentLanguage]
    /\ geo_pending = NoGeoPending

GeoNext ==
    \/ \E l \in LanguagePks, latitude \in Latitudes, longitude \in Longitudes :
          AddLanguage(l, latitude, longitude)
    \/ \E l \in LanguagePks, latitude \in Latitudes : SetLatitude(l, latitude)
    \/ \E l \in LanguagePks, longitude \in Longitudes : SetLongitude(l, longitude)
    \/ CommitLanguage

-----------------------------------------------------------------------------
(* Data.add of clld/scripts/util.py *)

TypeError == "TypeError"

\* The model classes passed to Data.add and the keys under which objects
\* are registered.
Models == {"Language", "Parameter"}
RegistryKeys == {"l", "l2"}

\* A model class is identified with its name, which is what mapper_name()
\* gives.
mapper_name(model) == model

\* The attributes a model class accepts as keywords.
ModelAttributes == {"id", "name", "jsondata"}

\* An object is the class it was made from and the keywords it was made
\* with.
Object(model, kw) == [model |-> model, kw |-> kw]
NoObject == Object("<None>", [k \in {} |-> "<None>"])

\* An object made elsewhere and passed as _obj.
GivenObject == Object("Language", [k \in {"id"} |-> "given"])

\* The keyword arguments of the calls: id and name may be passed, and _obj.
Keywords ==
    UNION {[ks -> {"l"}] : ks \in SUBSET {"id", "name"}}

WithObj(kw) ==
    [k \in DOMAIN kw \cup {"_obj"} |-> IF k = "_obj" THEN GivenObject ELSE kw[k]]

KeywordArguments == Keywords \cup {WithObj(kw) : kw \in Keywords}

\* The defaults a Data instance is made with.
Defaults ==
    UNION {[ks -> {"d"}] : ks \in SUBSET {"name", "jsondata"}}

\* A setdefault that overwrites what was passed.
setdefault_override(kw, k, v) ==
    [x \in DOMAIN kw \cup {k} |-> IF x = k THEN v ELSE kw[x]]

\* kw.setdefault(k, v): kw with k set to v unless kw has k.
setdefault(kw, k, v) ==
    IF k \in DOMAIN kw THEN kw
    ELSE [x \in DOMAIN kw \cup {k} |-> IF x = k THEN v ELSE kw[x]]

\* for k, v in self.defaults.items(): kw.setdefault(k, v)
RECURSIVE with_defaults(_, _, _)
with_defaults(kw, defaults, ks) ==
    IF ks = {} THEN kw
    ELSE LET k == CHOOSE x \in ks : TRUE
         IN  with_defaults(setdefault(kw, k, defaults[k]), defaults, ks \ {k})

\* model(**kw): the constructor of a mapped class raises TypeError for a
\* keyword that is not an attribute of the class.
ConstructorRaises(kw) == ~(DOMAIN kw \subseteq ModelAttributes)

\* Data.add(model, key, **kw)
DataAdd(model, key, kw) ==
    LET only_obj == DOMAIN kw = {"_obj"}
        filled == with_defaults(kw, data_defaults, DOMAIN data_defaults)
        new == IF only_obj THEN kw["_obj"] ELSE Object(model, filled)
    IN  /\ data_calls < MaxAdds
        /\ data_calls' = data_calls + 1
        /\ IF ~only_obj /\ ConstructorRaises(filled)
           THEN /\ outcome' = Outcome("Data.add", <<model, key>>, kw, TypeError)
                /\ returned' = None
                /\ UNCHANGED <<data_registry, data_session>>
           ELSE /\ data_registry' =
                       [data_registry EXCEPT ![<<mapper_name(model), key>>] = new]
                /\ data_session' = data_session \cup {new}
                /\ returned' = new
                /\ outcome' = Outcome("Data.add", <<model, key>>, kw, NoError)
        /\ UNCHANGED data_defaults
        /\ UNCHANGED notDataVars

\* The Data instance is used no more and a new one is made, with the same
\* defaults and a new session.
DataReset ==
    /\ data_calls > 0
    /\ data_calls' = 0
    /\ data_registry' = [x \in Models \X RegistryKeys |-> NoObject]
    /\ data_session' = {}
    /\ returned' = None
    /\ outcome' = Outcome("Data", None, None, NoError)
    /\ UNCHANGED data_defaults
    /\ UNCHANGED notDataVars

DataInit ==
    /\ data_defaults \in Defaults
    /\ data_registry = [x \in Models \X RegistryKeys |-> NoObject]
    /\ data_session = {}
    /\ data_calls = 0

DataIdle ==
    /\ data_defaults = [k \in {} |-> "d"]
    /\ data_registry = [x \in Models \X RegistryKeys |-> NoObject]
    /\ data_session = {}
    /\ data_calls = 0

DataNext ==
    \/ \E model \in Models, key \in RegistryKeys, kw \in KeywordArguments :
          DataAdd(model, key, kw)
    \/ DataReset

-----------------------------------------------------------------------------
(* The ordinal of data records and the collection `data` of their owner *)

\* ord = Column(Integer, default=1)
DataMixin_ord_default == 1

\* relationship(cls.__name__ + '_data'): the relationship names no
\* order_by, so the collection has the rows in the order in which they are
\* stored, which is the order in which they were added.
HasDataMixin_data == owner_data

\* Language_data(object_pk=language.pk, key=k, value=v, ord=o)
AddDataRecord(k, v, o) ==
    /\ Len(owner_data) < MaxRecords
    /\ owner_data' = Append(owner_data, [key |-> k, value |-> v, ord |-> o])
    /\ outcome' = Outcome("Language_data(ord)", None, o, NoError)
    /\ returned' = None
    /\ UNCHANGED notOrdVars

\* Language_data(object_pk=language.pk, key=k, value=v): ord takes its
\* default.
AddDataRecordWithoutOrd(k, v) ==
    /\ Len(owner_data) < MaxRecords
    /\ owner_data' = Append(owner_data, [key |-> k, value |-> v,
                                         ord |-> DataMixin_ord_default])
    /\ outcome' = Outcome("Language_data()", None, None, NoError)
    /\ returned' = None
    /\ UNCHANGED notOrdVars

\* record.ord = o on the i-th stored record.
SetDataRecordOrd(i, o) ==
    /\ i \in 1..Len(owner_data)
    /\ owner_data[i].ord # o
    /\ owner_data' = [owner_data EXCEPT ![i].ord = o]
    /\ outcome' = Outcome("Language_data.ord", i, o, NoError)
    /\ returned' = None
    /\ UNCHANGED notOrdVars

\* The i-th stored record is deleted.
RemoveDataRecord(i) ==
    /\ i \in 1..Len(owner_data)
    /\ owner_data' = RemoveAt(owner_data, i)
    /\ outcome' = Outcome("Language_data.delete", i, None, NoError)
    /\ returned' = None
    /\ UNCHANGED notOrdVars

\* language.data is traversed.
ReadData ==
    /\ returned' = HasDataMixin_data
    /\ outcome' = Outcome("Language.data", None, None, NoError)
    /\ UNCHANGED owner_data
    /\ UNCHANGED notOrdVars

OrdInit == owner_data = <<>>

OrdNext ==
    \/ \E k \in DataKeys, v \in DataValues, o \in Ords : AddDataRecord(k, v, o)
    \/ \E k \in DataKeys, v \in DataValues : AddDataRecordWithoutOrd(k, v)
    \/ \E i \in 1..MaxRecords, o \in Ords : SetDataRecordOrd(i, o)
    \/ \E i \in 1..MaxRecords : RemoveDataRecord(i)
    \/ ReadData

-----------------------------------------------------------------------------
(* LanguageIdentifier: the links of a Language to Identifiers *)

\* The cascade of a relationship that names none.
relationship_cascade_default == {"save-update", "merge"}

\* A backref without the cascade argument.
Language_languageidentifier_cascade_unset == {"save-update", "merge"}

\* backref("languageidentifier", cascade="all, delete-orphan"): the cascade
\* from a Language to its links.
Language_languageidentifier_cascade ==
    {"save-update", "merge", "refresh-expire", "expunge", "delete",
     "delete-orphan"}

\* identifier = relationship(Identifier): the cascade from a link to its
\* Identifier.
LanguageIdentifier_identifier_cascade == relationship_cascade_default

NoLink == [language_pk |-> None, identifier_pk |-> None, absent |-> TRUE]

StoredLinks == {k \in LinkPks : link_rows[k] # NoLink}

\* language.languageidentifier: the links whose language is l.
languageidentifier(l) == {k \in StoredLinks : link_rows[k].language_pk = l}

\* Language.identifiers, the association proxy: the Identifiers of the
\* links of l.
identifiers(l) == {link_rows[k].identifier_pk : k \in languageidentifier(l)}

\* The Identifiers left when the links ks are deleted: the delete goes on
\* to a link's Identifier only if the cascade of `identifier` has delete.
IdentifiersAfterDelete(ks) ==
    IF "delete" \in LanguageIdentifier_identifier_cascade
    THEN link_identifiers \ {link_rows[k].identifier_pk : k \in ks}
    ELSE link_identifiers

\* The link rows after the links ks lost their Language: deleted if the
\* cascade has `how`, else kept with language_pk set to NULL.
LinksAfterLoss(ks, how) ==
    [k \in LinkPks |->
        IF k \notin ks THEN link_rows[k]
        ELSE IF how \in Language_languageidentifier_cascade THEN NoLink
        ELSE [link_rows[k] EXCEPT !.language_pk = None]]

\* A Language is stored.
StoreLanguage(l) ==
    /\ l \notin link_languages
    /\ link_languages' = link_languages \cup {l}
    /\ outcome' = Outcome("Language()", l, None, NoError)
    /\ UNCHANGED <<link_identifiers, link_rows>>
    /\ UNCHANGED notLinkVars

\* LanguageIdentifier(language=l, identifier=i) is stored.
StoreLanguageIdentifier(k, l, i) ==
    /\ link_rows[k] = NoLink
    /\ l \in link_languages
    /\ i \in link_identifiers
    /\ link_rows' = [link_rows EXCEPT ![k] = [language_pk |-> l, identifier_pk |-> i]]
    /\ outcome' = Outcome("LanguageIdentifier()", k, l, NoError)
    /\ UNCHANGED <<link_languages, link_identifiers>>
    /\ UNCHANGED notLinkVars

\* link.language = l2 for a stored link of another Language: the backref
\* moves the link to the collection of l2.
SetLinkLanguage(k, l2) ==
    /\ k \in StoredLinks
    /\ l2 \in link_languages
    /\ link_rows[k].language_pk # l2
    /\ link_rows' = [link_rows EXCEPT ![k].language_pk = l2]
    /\ outcome' = Outcome("LanguageIdentifier.language", k, l2, NoError)
    /\ UNCHANGED <<link_languages, link_identifiers>>
    /\ UNCHANGED notLinkVars

\* language.languageidentifier.remove(link), and the flush: the link is an
\* orphan.
RemoveLink(k) ==
    /\ k \in StoredLinks
    /\ link_rows[k].language_pk # None
    /\ link_rows' = LinksAfterLoss({k}, "delete-orphan")
    /\ link_identifiers' =
          IF "delete-orphan" \in Language_languageidentifier_cascade
          THEN IdentifiersAfterDelete({k})
          ELSE link_identifiers
    /\ outcome' = Outcome("languageidentifier.remove", k, link_rows[k].language_pk, NoError)
    /\ UNCHANGED link_languages
    /\ UNCHANGED notLinkVars

\* DBSession.delete(language), and the flush.
DeleteLinkedLanguage(l) ==
    /\ l \in link_languages
    /\ link_languages' = link_languages \ {l}
    /\ link_rows' = LinksAfterLoss(languageidentifier(l), "delete")
    /\ link_identifiers' =
          IF "delete" \in Language_languageidentifier_cascade
          THEN IdentifiersAfterDelete(languageidentifier(l))
          ELSE link_identifiers
    /\ outcome' = Outcome("DBSession.delete(language)", l, None, NoError)
    /\ UNCHANGED notLinkVars

LinkInit ==
    /\ link_languages = {}
    /\ link_identifiers = IdentifierPks
    /\ link_rows = [k \in LinkPks |-> NoLink]

LinkIdle == LinkInit

LinkNext ==
    \/ \E l \in LanguagePks : StoreLanguage(l)
    \/ \E k \in LinkPks, l \in LanguagePks, i \in IdentifierPks :
          StoreLanguageIdentifier(k, l, i)
    \/ \E k \in LinkPks, l2 \in LanguagePks : SetLinkLanguage(k, l2)
    \/ \E k \in LinkPks : RemoveLink(k)
    \/ \E l \in LanguagePks : DeleteLinkedLanguage(l)

-----------------------------------------------------------------------------
(* Specifications, one per part of the data model *)

InitValue ==
    /\ outcome = NoOutcome /\ returned = None
    /\ ValueInit /\ UnitValueIdle /\ IdentifierIdle
    /\ ContributionInit /\ ParameterInit /\ AnnotationInit /\ VersionedInit
    /\ WriterIdle
    /\ DbIdle
    /\ DomainIdle
    /\ GeoIdle
    /\ DataIdle
    /\ OrdInit
    /\ LinkIdle

SpecValue == InitValue /\ [][ValueNext]_vars

InitUnitValue ==
    /\ outcome = NoOutcome /\ returned = None
    /\ ValueIdle /\ UnitValueInit /\ IdentifierIdle
    /\ ContributionInit /\ ParameterInit /\ AnnotationInit /\ VersionedInit
    /\ WriterIdle
    /\ DbIdle
    /\ DomainIdle
    /\ GeoIdle
    /\ DataIdle
    /\ OrdInit
    /\ LinkIdle

SpecUnitValue == InitUnitValue /\ [][UnitValueNext]_vars

InitIdentifier ==
    /\ outcome = NoOutcome /\ returned = None
    /\ ValueIdle /\ UnitValueIdle /\ IdentifierInit
    /\ ContributionInit /\ ParameterInit /\ AnnotationInit /\ VersionedInit
    /\ WriterIdle
    /\ DbIdle
    /\ DomainIdle
    /\ GeoIdle
    /\ DataIdle
    /\ OrdInit
    /\ LinkIdle

SpecIdentifier == InitIdentifier /\ [][IdentifierNext]_vars

InitContribution ==
    /\ outcome = NoOutcome /\ returned = None
    /\ ValueIdle /\ UnitValueIdle /\ IdentifierIdle
    /\ ContributionInit /\ ParameterInit /\ AnnotationInit /\ VersionedInit
    /\ WriterIdle
    /\ DbIdle
    /\ DomainIdle
    /\ GeoIdle
    /\ DataIdle
    /\ OrdInit
    /\ LinkIdle

SpecContribution == InitContribution /\ [][ContributionNext]_vars

InitParameter ==
    /\ outcome = NoOutcome /\ returned = None
    /\ ValueIdle /\ UnitValueIdle /\ IdentifierIdle
    /\ ContributionInit /\ ParameterInit /\ AnnotationInit /\ VersionedInit
    /\ WriterIdle
    /\ DbIdle
    /\ DomainIdle
    /\ GeoIdle
    /\ DataIdle
    /\ OrdInit
    /\ LinkIdle

SpecParameter == InitParameter /\ [][ParameterNext]_vars

InitAnnotation ==
    /\ outcome = NoOutcome /\ returned = None
    /\ ValueIdle /\ UnitValueIdle /\ IdentifierIdle
    /\ ContributionInit /\ ParameterInit /\ AnnotationInit /\ VersionedInit
    /\ WriterIdle
    /\ DbIdle
    /\ DomainIdle
    /\ GeoIdle
    /\ DataIdle
    /\ OrdInit
    /\ LinkIdle

SpecAnnotation == InitAnnotation /\ [][AnnotationNext]_vars

InitVersioned ==
    /\ outcome = NoOutcome /\ returned = None
    /\ ValueIdle /\ UnitValueIdle /\ IdentifierIdle
    /\ ContributionInit /\ ParameterInit /\ AnnotationInit /\ VersionedInit
    /\ WriterIdle
    /\ DbIdle
    /\ DomainIdle
    /\ GeoIdle
    /\ DataIdle
    /\ OrdInit
    /\ LinkIdle

SpecVersioned == InitVersioned /\ [][VersionedNext]_vars

InitDb ==
    /\ outcome = NoOutcome /\ returned = None
    /\ ValueIdle /\ UnitValueIdle /\ IdentifierIdle
    /\ ContributionInit /\ ParameterInit /\ AnnotationInit /\ VersionedInit
    /\ WriterIdle
    /\ DbInit
    /\ DomainIdle
    /\ GeoIdle
    /\ DataIdle
    /\ OrdInit
    /\ LinkIdle

SpecDb == InitDb /\ [][DbNext]_vars

InitDomain ==
    /\ outcome = NoOutcome /\ returned = None
    /\ ValueIdle /\ UnitValueIdle /\ IdentifierIdle
    /\ ContributionInit /\ ParameterInit /\ AnnotationInit /\ VersionedInit
    /\ WriterIdle
    /\ DbIdle
    /\ DomainInit
    /\ GeoIdle
    /\ DataIdle
    /\ OrdInit
    /\ LinkIdle

SpecDomain == InitDomain /\ [][DomainNext]_vars

InitGeo ==
    /\ outcome = NoOutcome /\ returned = None
    /\ ValueIdle /\ UnitValueIdle /\ IdentifierIdle
    /\ ContributionInit /\ ParameterInit /\ AnnotationInit /\ VersionedInit
    /\ WriterIdle
    /\ DbIdle
    /\ DomainIdle
    /\ GeoIdle
    /\ DataIdle
    /\ OrdInit
    /\ LinkIdle

SpecGeo == InitGeo /\ [][GeoNext]_vars

InitData ==
    /\ outcome = NoOutcome /\ returned = None
    /\ ValueIdle /\ UnitValueIdle /\ IdentifierIdle
    /\ ContributionInit /\ ParameterInit /\ AnnotationInit /\ VersionedInit
    /\ WriterIdle
    /\ DbIdle
    /\ DomainIdle
    /\ GeoIdle
    /\ DataInit
    /\ OrdInit
    /\ LinkIdle

SpecData == InitData /\ [][DataNext]_vars

InitOrd ==
    /\ outcome = NoOutcome /\ returned = None
    /\ ValueIdle /\ UnitValueIdle /\ IdentifierIdle
    /\ ContributionInit /\ ParameterInit /\ AnnotationInit /\ VersionedInit
    /\ WriterIdle
    /\ DbIdle
    /\ DomainIdle
    /\ GeoIdle
    /\ DataIdle
    /\ OrdInit
    /\ LinkIdle

SpecOrd == InitOrd /\ [][OrdNext]_vars

InitLink ==
    /\ outcome = NoOutcome /\ returned = None
    /\ ValueIdle /\ UnitValueIdle /\ IdentifierIdle
    /\ ContributionInit /\ ParameterInit /\ AnnotationInit /\ VersionedInit
    /\ WriterIdle
    /\ DbIdle
    /\ DomainIdle
    /\ GeoIdle
    /\ DataIdle
    /\ OrdInit
    /\ LinkInit

SpecLink == InitLink /\ [][LinkNext]_vars

InitWriters ==
    /\ outcome = NoOutcome /\ returned = None
    /\ ValueIdle /\ UnitValueIdle /\ IdentifierIdle
    /\ ContributionInit /\ ParameterInit /\ AnnotationInit /\ VersionedInit
    /\ WriterIdle
    /\ DbIdle
    /\ DomainIdle
    /\ GeoIdle
    /\ DataIdle
    /\ OrdInit
    /\ LinkIdle

SpecWriters == InitWriters /\ [][WritersNext]_vars

-----------------------------------------------------------------------------
(* Properties of Value, checked under SpecValue *)

C18_DomainElementAssignmentUnchecked ==
    [][ \A v \in ValuePks :
          ( /\ outcome'.op = "Value.domainelement"
            /\ outcome'.obj = v )
          => ( /\ outcome'.raised = NoError
               /\ value_domainelement'[v] = outcome'.arg
               /\ value_parameter_pk'[v] = value_parameter_pk[v] ) ]_vars

\* A Value that has a parameter was just assigned a domain element of a
\* different parameter: v.domainelement.parameter != v.parameter.
C18_Witness ==
    \E v \in ValuePks :
        /\ outcome.op = "Value.domainelement"
        /\ outcome.obj = v
        /\ outcome.raised = NoError
        /\ value_parameter_pk[v] # None
        /\ value_domainelement[v] = outcome.arg
        /\ value_domainelement[v] # None
        /\ domainelement_parameter_pk[value_domainelement[v]] # None
        /\ domainelement_parameter_pk[value_domainelement[v]] # value_parameter_pk[v]

\* C21: a parameter assignment that raises AssertionError leaves the
\* Value's parameter_pk and domainelement as they were, and a parameter
\* assignment to a Value without domain element succeeds and stores the
\* parameter.
C21_FailedAssignmentChangesNothing ==
    [][ \A v \in ValuePks :
          ( /\ outcome'.op = "Value.parameter_pk"
            /\ outcome'.obj = v )
          => /\ outcome'.raised = AssertionError =>
                   /\ value_parameter_pk'[v] = value_parameter_pk[v]
                   /\ value_domainelement'[v] = value_domainelement[v]
             /\ value_domainelement[v] = None =>
                   /\ outcome'.raised = NoError
                   /\ value_parameter_pk'[v] = outcome'.arg
                   /\ value_domainelement'[v] = None ]_vars

\* A Value whose domain element was assigned after its parameter has just
\* refused another parameter and still has the one it had.
C21_Witness ==
    \E v \in ValuePks :
        /\ outcome.op = "Value.parameter_pk"
        /\ outcome.obj = v
        /\ outcome.raised = AssertionError
        /\ value_last[v] = "domainelement"
        /\ value_parameter_pk[v] # None
        /\ value_parameter_pk[v] # outcome.arg
        /\ value_domainelement[v] # None

-----------------------------------------------------------------------------
(* Properties of UnitValue, checked under SpecUnitValue *)

\* C3: assigning unitparameter_pk to a UnitValue whose unit domain element
\* belongs to a different UnitParameter raises AssertionError on that
\* assignment and stores nothing, as for Value.
C3_UnitMismatchRaises ==
    [][ \A v \in ValuePks :
          ( /\ outcome'.op = "UnitValue.unitparameter_pk"
            /\ outcome'.obj = v
            /\ outcome'.arg # None
            /\ unitvalue_unitdomainelement[v] # None
            /\ unitdomainelement_unitparameter_pk[unitvalue_unitdomainelement[v]]
                   # outcome'.arg )
          => ( /\ outcome'.raised = AssertionError
               /\ unitvalue_unitparameter_pk'[v] = unitvalue_unitparameter_pk[v] ) ]_vars

-----------------------------------------------------------------------------
(* Properties of Identifier, checked under SpecIdentifier *)

\* C6: an assignment to Identifier.type raises AssertionError exactly when
\* the value is not one of 'wals', 'iso639-3', 'glottolog'; an assignment of
\* one of the three succeeds and stores it.
C6_TypeAssignment ==
    outcome.op \in {"Identifier.type", "Identifier(type)"} =>
        /\ (outcome.raised = AssertionError)
              <=> (outcome.arg \notin {"wals", "iso639-3", "glottolog"})
        /\ (outcome.arg \in {"wals", "iso639-3", "glottolog"})
              => ( /\ outcome.raised = NoError
                   /\ identifier_type[outcome.obj] = outcome.arg )

\* An Identifier holds an accepted type and a later assignment of a value
\* outside the enumeration to it has just failed.
C6_Witness ==
    /\ outcome.op = "Identifier.type"
    /\ outcome.raised = AssertionError
    /\ identifier_type[outcome.obj] = "glottolog"

\* C7, as stated: every constructed Identifier has a type in the
\* enumeration.
C7_TypeAlwaysInEnumeration ==
    \A i \in IdentifierPks :
        identifier_type[i] # Absent
        => identifier_type[i] \in {"wals", "iso639-3", "glottolog"}

\* C7, amended: the type of an Identifier is None as long as no type was
\* successfully assigned to it, and a member of the enumeration afterwards.
C7_TypeInEnumerationOnceAssigned ==
    \A i \in IdentifierPks :
        identifier_type[i] # Absent
        => IF identifier_assigned[i]
           THEN identifier_type[i] \in {"wals", "iso639-3", "glottolog"}
           ELSE identifier_type[i] = NoneStr

\* One Identifier was constructed without a type and never given one,
\* another has been assigned a type.
C7_Witness ==
    \E i, j \in IdentifierPks :
        /\ identifier_type[i] = NoneStr /\ ~identifier_assigned[i]
        /\ identifier_type[j] # Absent /\ identifier_assigned[j]

-----------------------------------------------------------------------------
(* Properties of Contribution, checked under SpecContribution *)

\* `list` holds the contributors of exactly the associations `indexes`, one
\* entry per association, in ascending order of the associations' ord.
ListsAssocsInOrdOrder(list, indexes) ==
    /\ Len(list) = Cardinality(indexes)
    /\ \E f \in [1..Len(list) -> indexes] :
          /\ \A j, k \in 1..Len(list) : j # k => f[j] # f[k]
          /\ \A k \in 1..Len(list) : list[k] = contributor_assocs[f[k]].contributor
          /\ \A j, k \in 1..Len(list) :
                j < k => contributor_assocs[f[j]].ord <= contributor_assocs[f[k]].ord

\* C4: primary_contributors and secondary_contributors partition the
\* contributor associations: the associations with a true primary flag
\* make up the first list, all others the second, each association once,
\* and each list is in ascending ord order.
C4_ContributorsPartition ==
    outcome.op = "Contribution.contributors" =>
        LET all == 1..Len(contributor_assocs)
            prim == {i \in all : contributor_assocs[i].primary = TRUE}
        IN  /\ ListsAssocsInOrdOrder(returned.primary, prim)
            /\ ListsAssocsInOrdOrder(returned.secondary, all \ prim)
            /\ Len(returned.primary) + Len(returned.secondary) = Len(contributor_assocs)

\* Both lists were read from three associations stored out of ord order,
\* with primary and secondary ones among them.
C4_Witness ==
    /\ outcome.op = "Contribution.contributors"
    /\ Len(contributor_assocs) = 3
    /\ contributor_assocs[1].ord > contributor_assocs[3].ord
    /\ contributor_assocs[1].primary /\ contributor_assocs[3].primary
    /\ contributor_assocs[1].contributor # contributor_assocs[3].contributor
    /\ ~contributor_assocs[2].primary
    /\ Len(returned.primary) = 2 /\ Len(returned.secondary) = 1

-----------------------------------------------------------------------------
(* Properties of Parameter, checked under SpecParameter *)

\* The values are ordered by language.
OrderedByLanguage ==
    \A i, j \in 1..Len(parameter_values) :
        i < j => parameter_values[i].language <= parameter_values[j].language

\* The languages of the values, each once, in the order of their first
\* occurrence.
RECURSIVE FirstOccurrences(_, _)
FirstOccurrences(values, seen) ==
    IF values = <<>> THEN <<>>
    ELSE IF Head(values).language \in seen
         THEN FirstOccurrences(Tail(values), seen)
         ELSE <<Head(values).language>>
                  \o FirstOccurrences(Tail(values), seen \cup {Head(values).language})

HasLanguage(l, v) == v.language = l

\* All values of language l, in stored order.
ValuesOf(l) ==
    LET Keep(v) == HasLanguage(l, v)
    IN  SelectSeq(parameter_values, Keep)

\* C5, as stated: for values ordered by language, Parameter.languages
\* yields one (language, group of that language's values) pair per
\* language, in encounter order.
C5_YieldsLanguageGroupPairs ==
    (outcome.op = "Parameter.languages" /\ OrderedByLanguage) =>
        LET firsts == FirstOccurrences(parameter_values, {})
        IN  /\ Len(returned) = Len(firsts)
            /\ \A i \in 1..Len(returned) :
                  /\ Len(returned[i]) = 2
                  /\ returned[i][1] = firsts[i]
                  /\ returned[i][2] = ValuesOf(firsts[i])

\* C5, amended: for values ordered by language, Parameter.languages yields
\* each language once, without its values, in encounter order.
C5_YieldsEachLanguageOnce ==
    (outcome.op = "Parameter.languages" /\ OrderedByLanguage) =>
        LET firsts == FirstOccurrences(parameter_values, {})
        IN  /\ Len(returned) = Len(firsts)
            /\ \A i \in 1..Len(returned) : returned[i] = <<firsts[i]>>

\* Parameter.languages was read for the values [(L1,v1),(L1,v2),(L2,v3)]
\* and yielded two items.
C5_Witness ==
    /\ outcome.op = "Parameter.languages"
    /\ parameter_values = << [pk |-> 1, language |-> 1],
                             [pk |-> 2, language |-> 1],
                             [pk |-> 3, language |-> 2] >>
    /\ Len(returned) = 2

\* The positions at which a maximal run of values of equal language
\* starts, in the stored order of the values.
RunStarts ==
    {i \in 1..Len(parameter_values) :
        i = 1 \/ parameter_values[i].language # parameter_values[i - 1].language}

\* C20: Parameter.languages yields one item per maximal run of adjacent
\* values of equal language, in stored order, the item of a run being the
\* run's language; a language whose values are not adjacent is yielded once
\* per run.
C20_OneGroupPerRun ==
    outcome.op = "Parameter.languages" =>
        /\ Len(returned) = Cardinality(RunStarts)
        /\ \A i \in RunStarts :
              returned[Cardinality({j \in RunStarts : j <= i})]
                  = <<parameter_values[i].language>>

\* Parameter.languages was read for the values [(L1,v1),(L2,v2),(L1,v3)]
\* and yielded three items, L1 twice.
C20_Witness ==
    /\ outcome.op = "Parameter.languages"
    /\ Len(parameter_values) = 3
    /\ parameter_values[1].language = parameter_values[3].language
    /\ parameter_values[1].language # parameter_values[2].language
    /\ Len(returned) = 3
    /\ returned[1] = returned[3]

-----------------------------------------------------------------------------
(* Properties of the data and files mixins, checked under SpecAnnotation *)

\* The (key, value) pairs of a mapping.
Items(mapping) == {<<k, mapping[k]>> : k \in DOMAIN mapping}

\* C8: for data records with pairwise distinct keys, datadict() returns a
\* mapping with exactly the (key, value) pairs of the data records, so the
\* records rebuilt from the mapping are the same pairs.
C8_DatadictRoundTrip ==
    ( /\ outcome.op = "datadict"
      /\ \A i, j \in 1..Len(entity_data) :
            i # j => entity_data[i].key # entity_data[j].key )
    => /\ outcome.raised = NoError
       /\ Items(returned) = {<<d.key, d.value>> : d \in Range(entity_data)}
       /\ Cardinality(DOMAIN returned) = Len(entity_data)

\* datadict() was called on a Language with two data records of distinct
\* keys, and with file records attached.
C8_Witness ==
    /\ outcome.op = "datadict"
    /\ Len(entity_data) = 2
    /\ entity_data[1].key # entity_data[2].key
    /\ entity_files # <<>>

\* C9: filesdict() returns a mapping from the name of each attached file
\* record to that record's file, with one entry per record when the names
\* are distinct.
C9_FilesdictMapsNamesToFiles ==
    (outcome.op = "filesdict" /\ entity_files # <<>>) =>
        /\ outcome.raised = NoError
        /\ \A i \in 1..Len(entity_files) :
              /\ entity_files[i].name \in DOMAIN returned
              /\ returned[entity_files[i].name] \in {f.file : f \in Range(entity_files)}
        /\ (\A i, j \in 1..Len(entity_files) :
                i # j => entity_files[i].name # entity_files[j].name)
             => Items(returned) = {<<f.name, f.file>> : f \in Range(entity_files)}

-----------------------------------------------------------------------------
(* Properties of versioning, checked under SpecVersioned *)

\* C10: the N committed mutations (insert, field update, delete) of a
\* Language have produced exactly N history records for it, with version
\* numbers strictly increasing in mutation order.
C10_OneRecordPerMutation ==
    \A e \in LanguagePks :
        /\ Len(language_history[e]) = language_mutations[e]
        /\ \A i, j \in 1..Len(language_history[e]) :
              i < j => language_history[e][i].version < language_history[e][j].version

\* A Language was inserted, updated and deleted.
C10_Witness ==
    \E e \in LanguagePks :
        /\ language_mutations[e] = 3
        /\ language_row[e].status = "deleted"
        /\ Len(language_history[e]) = 3
        /\ language_history[e][2].op = "update"

\* C11: no step, and in particular no delete of a Language, removes or
\* changes a history record: every record that exists stays as it is, at
\* its place, whatever becomes of the live Language.
C11_HistorySurvivesDelete ==
    [][ \A e \in LanguagePks :
          \A i \in 1..Len(language_history[e]) :
              /\ i <= Len(language_history'[e])
              /\ language_history'[e][i] = language_history[e][i] ]_vars

\* A Language was deleted and the records of its insert and of its delete
\* are both in its history.
C11_Witness ==
    \E e \in LanguagePks :
        /\ outcome = Outcome("Language.delete", e, None, NoError)
        /\ language_row[e].status = "deleted"
        /\ Len(language_history[e]) >= 2
        /\ language_history[e][1].op = "insert"
        /\ language_history[e][Len(language_history[e])].op = "delete"

-----------------------------------------------------------------------------
(* Properties of concurrent writers, checked under SpecWriters *)

\* C12: under every interleaving of the writers' loads and commits, the
\* version numbers of the Language's history records are 1, 2, 3, ... in
\* order: none occurs twice and none is left out.
C12_VersionsWithoutGapsOrDuplicates ==
    \A e \in LanguagePks :
        \A i \in 1..Len(language_history[e]) : language_history[e][i].version = i

\* Two writers loaded the same version; one committed, and the write of
\* the other has just been rejected.
C12_Witness ==
    /\ outcome.op = "Language.update"
    /\ outcome.raised = StaleDataError
    /\ Len(language_history[TargetLanguage]) >= 2
    /\ language_history[TargetLanguage][2].op = "update"

-----------------------------------------------------------------------------
(* Properties of committed data, checked under SpecDb *)

NameUniqueClasses == {"Language", "Parameter", "Contribution", "Contributor"}

\* Two stored rows share the key column (a name or an id, which both
\* have) and agree on each of the columns, where two rows with None in a
\* column other than the key agree on it.
Share(rows, p, q, key, columns) ==
    /\ p # q
    /\ rows[p][key] # NoneStr
    /\ \A c \in columns \cup {key} : rows[p][c] = rows[q][c]

\* No column of the set is None in the stored row.
AllSet(rows, p, columns) == \A c \in columns : rows[p][c] # NoneStr

NoTwoShare(cls, rows) ==
    \A p, q \in Stored(rows) :
        /\ cls \in NameUniqueClasses => ~Share(rows, p, q, "name", {})
        /\ cls = "DomainElement" =>
              (AllSet(rows, p, {"parameter_pk"}) =>
                  ~Share(rows, p, q, "name", {"parameter_pk"}))
        /\ cls = "Identifier" =>
              /\ ~Share(rows, p, q, "name", {"type"})
              /\ ~Share(rows, p, q, "id", {})

NoTwoShareWhenSet(cls, rows) ==
    \A p, q \in Stored(rows) :
        /\ cls \in NameUniqueClasses => ~Share(rows, p, q, "name", {})
        /\ cls = "DomainElement" =>
              (AllSet(rows, p, {"parameter_pk"}) =>
                  ~Share(rows, p, q, "name", {"parameter_pk"}))
        /\ cls = "Identifier" =>
              /\ AllSet(rows, p, {"type"}) => ~Share(rows, p, q, "name", {"type"})
              /\ ~Share(rows, p, q, "id", {})

\* C13, as stated: in the committed data no two Languages (Parameters,
\* Contributions, Contributors) share a name, no two DomainElements of the
\* same parameter share a name, no two Identifiers share (name, type) and
\* no two Identifiers share an id.
C13_NoTwoShare == NoTwoShare(table_class, db_rows)

\* C13, amended: in the committed data no two Languages (Parameters,
\* Contributions, Contributors) share a name, no two DomainElements of the
\* same parameter share a name, no two Identifiers that have a type share
\* (name, type), and no two Identifiers share an id.
C13_NoTwoShareWhenSet == NoTwoShareWhenSet(table_class, db_rows)

\* A second Identifier was committed next to a stored one of the same name
\* and another type, both with id, name and type set.
C13_Witness ==
    /\ table_class = "Identifier"
    /\ outcome.op = "Session.commit" /\ outcome.raised = NoError
    /\ \E p, q \in Stored(db_rows) :
          /\ p # q
          /\ AllSet(db_rows, p, {"id", "name", "type"})
          /\ AllSet(db_rows, q, {"id", "name", "type"})
          /\ db_rows[p].name = db_rows[q].name

\* Some stored row duplicates the id of another, or its name within the
\* scope in which the class wants names to be unique.
DuplicatesNameOrId(cls, rows) ==
    \/ ~NoTwoShareWhenSet(cls, rows)
    \/ \E p, q \in Stored(rows) : Share(rows, p, q, "id", {})

\* C14: adding or modifying an entity never raises and leaves the committed
\* data alone, also when the pending change duplicates a stored name or id;
\* only a commit raises, and the commit of a duplicating change is rejected
\* with IntegrityError and leaves the committed data as it was, without the
\* duplicate.
C14_DuplicateRejectedAtCommit ==
    [][ /\ outcome'.op \in {"Session.add", "Session.modify"} =>
              /\ outcome'.raised = NoError
              /\ pending' # NoPending
              /\ db_rows' = db_rows
        /\ outcome'.raised = IntegrityError => outcome'.op = "Session.commit"
        /\ outcome'.op = "Session.commit" =>
              IF DuplicatesNameOrId(table_class, Written(db_rows, pending))
              THEN /\ outcome'.raised = IntegrityError
                   /\ db_rows' = db_rows
                   /\ ~DuplicatesNameOrId(table_class, db_rows')
              ELSE /\ outcome'.raised = NoError
                   /\ db_rows' = Written(db_rows, pending) ]_vars

\* The commit of a change to one of two stored rows has just been rejected.
C14_Witness ==
    /\ outcome.op = "Session.commit"
    /\ outcome.raised = IntegrityError
    /\ Cardinality(Stored(db_rows)) >= 2
    /\ pending = NoPending

-----------------------------------------------------------------------------
(* Properties of the domain of a parameter, checked under SpecDomain *)

-----------------------------------------------------------------------------
(* Properties of the coordinates, checked under SpecGeo *)

InRange(coordinate, low, high) ==
    coordinate = NULL \/ (low <= coordinate[1] /\ coordinate[1] <= high)

StoredLanguages == {l \in LanguagePks : geo_rows[l] # AbsentLanguage}

\* C16: every stored Language has a latitude that is absent or within
\* [-90, 90] and a longitude that is absent or within [-180, 180], and the
\* commit of a write with a coordinate outside its range is rejected and
\* leaves the stored Languages as they were.
C16_CoordinatesInRange ==
    /\ [](\A l \in StoredLanguages :
             /\ InRange(geo_rows[l].latitude, -90, 90)
             /\ InRange(geo_rows[l].longitude, -180, 180))
    /\ [][ (/\ outcome'.op = "Language.commit"
            /\ \/ ~InRange(geo_pending.row.latitude, -90, 90)
               \/ ~InRange(geo_pending.row.longitude, -180, 180))
           => /\ outcome'.raised = IntegrityError
              /\ geo_rows' = geo_rows ]_vars

\* A Language is stored at the limits of both ranges, and the commit of a
\* write that would have moved it past a limit has just been rejected.
C16_Witness ==
    /\ outcome.op = "Language.commit"
    /\ outcome.raised = IntegrityError
    /\ geo_rows[outcome.obj] # AbsentLanguage
    /\ geo_rows[outcome.obj].latitude = <<90>>
    /\ geo_rows[outcome.obj].longitude = <<-180>>

-----------------------------------------------------------------------------
(* Properties of Data.add, checked under SpecData *)

\* The keywords of the object the claim describes: what the caller passed,
\* and the defaults for the keywords the caller did not pass.
FilledIn(kw, defaults) ==
    [k \in DOMAIN kw \cup DOMAIN defaults |->
        IF k \in DOMAIN kw THEN kw[k] ELSE defaults[k]]

\* C17: after a call of Data.add(model, key, **kw) that returned, the
\* returned object is registered under data[model.mapper_name()][key] and
\* is in the session; it is the object passed as _obj when _obj is the only
\* keyword, and else model(**kw) with the defaults filled in for just the
\* keywords that were not passed.
C17_AddRegistersTheObject ==
    (outcome.op = "Data.add" /\ outcome.raised = NoError) =>
        LET model == outcome.obj[1]
            key == outcome.obj[2]
            kw == outcome.arg
        IN  /\ data_registry[<<mapper_name(model), key>>] = returned
            /\ returned \in data_session
            /\ returned = IF DOMAIN kw = {"_obj"}
                          THEN kw["_obj"]
                          ELSE Object(model, FilledIn(kw, data_defaults))

\* A call passed a name while the defaults have a name too, and left out a
\* keyword the defaults have; an earlier call passed only _obj.
C17_Witness ==
    /\ outcome.op = "Data.add" /\ outcome.raised = NoError
    /\ "name" \in DOMAIN outcome.arg
    /\ DOMAIN data_defaults = {"name", "jsondata"}
    /\ GivenObject \in data_session
    /\ returned # GivenObject

-----------------------------------------------------------------------------
(* Properties of the order of data records, checked under SpecOrd *)

\* C19: the data collection of an entity has its records in the order of
\* their ord: of two records with different ord the one with the smaller
\* ord comes first, in whatever order the records were added.
C19_DataInOrdOrder ==
    outcome.op = "Language.data" =>
        \A i, j \in 1..Len(returned) :
            returned[i].ord < returned[j].ord => i < j

-----------------------------------------------------------------------------
(* Properties of the links of a Language, checked under SpecLink *)

\* C22: every stored LanguageIdentifier link has a Language that is stored;
\* deleting a Language deletes all of its links and no other link, removing
\* a link from its Language's collection deletes that link, and in both
\* cases every Identifier stays stored.
C22_LinksOwnedByLanguage ==
    /\ [](\A k \in StoredLinks : link_rows[k].language_pk \in link_languages)
    /\ [][ /\ outcome'.op = "DBSession.delete(language)" =>
                 /\ \A k \in LinkPks :
                       link_rows'[k] = IF link_rows[k].language_pk = outcome'.obj
                                       THEN NoLink ELSE link_rows[k]
                 /\ link_identifiers' = link_identifiers
           /\ outcome'.op = "languageidentifier.remove" =>
                 /\ link_rows' = [link_rows EXCEPT ![outcome'.obj] = NoLink]
                 /\ link_identifiers' = link_identifiers ]_vars

\* A Language with a link was just deleted: none of the links has it, the
\* Identifiers are all stored, and a link of another Language is left.
C22_Witness ==
    /\ outcome.op = "DBSession.delete(language)"
    /\ outcome.obj \notin link_languages
    /\ \A k \in StoredLinks : link_rows[k].language_pk # outcome.obj
    /\ Cardinality(StoredLinks) = NumLinks - 1
    /\ \E l \in link_languages : identifiers(l) # {}
    /\ link_identifiers = IdentifierPks

=============================================================================
